---- MODULE Spec2Model ----
(***************************************************************************)
(* A model of the JWS Compact Serialization codec (src/src/compact.rs) and *)
(* of the "none" algorithm (src/src/none.rs).                              *)
(*                                                                         *)
(* Bytes are naturals 0..255 and byte strings are sequences of them.  A    *)
(* JSON value is a record [t, v]: t is the kind ("null", "bool", "num",    *)
(* "str", "obj") and v carries the content (<<>>, <<0>> or <<1>>, <<n>>,   *)
(* the characters, a function from keys to JSON values).  A header map is  *)
(* a function from keys (byte strings) to JSON values, as BTreeMap is.     *)
(* A Result is a record with ok = TRUE and the value's fields, or with     *)
(* ok = FALSE, the error's kind and its detail.                            *)
(***************************************************************************)
EXTENDS Integers, Sequences, FiniteSets, TLC

\* ------------------------------------------------------------------ bytes

\* b'.', the separator of the three segments
DOT == 46

\* "alg", "typ", "kid", "iss" as UTF-8
K_alg == <<97, 108, 103>>
K_typ == <<116, 121, 112>>
K_kid == <<107, 105, 100>>
K_iss == <<105, 115, 115>>

\* "none", "HS1" (a stand-in MAC algorithm's name), "JWT", "joe", "a\"b"
S_none == <<110, 111, 110, 101>>
S_HS1  == <<72, 83, 49>>
S_JWT  == <<74, 87, 84>>
S_joe  == <<106, 111, 101>>
S_quote == <<97, 34, 98>>

RECURSIVE LexLess(_, _)
\* the order of String keys in a BTreeMap: bytewise lexicographic
LexLess(a, b) ==
    IF a = <<>> THEN b # <<>>
    ELSE IF b = <<>> THEN FALSE
    ELSE IF a[1] # b[1] THEN a[1] < b[1]
    ELSE LexLess(Tail(a), Tail(b))

\* ------------------------------------------------------------- base64url

\* The URL-safe alphabet of RFC 4648 section 5: index -> character
B64Char(i) ==
    IF i < 26 THEN 65 + i
    ELSE IF i < 52 THEN 97 + (i - 26)
    ELSE IF i < 62 THEN 48 + (i - 52)
    ELSE IF i = 62 THEN 45
    ELSE 95

\* character -> index, -1 for a byte outside the alphabet
B64Val(c) ==
    IF c >= 65 /\ c <= 90 THEN c - 65
    ELSE IF c >= 97 /\ c <= 122 THEN c - 97 + 26
    ELSE IF c >= 48 /\ c <= 57 THEN c - 48 + 52
    ELSE IF c = 45 THEN 62
    ELSE IF c = 95 THEN 63
    ELSE -1

RECURSIVE encode_base64_url(_)
\* base64::encode_config_buf(.., URL_SAFE_NO_PAD, ..): no padding is written
encode_base64_url(b) ==
    IF Len(b) = 0 THEN <<>>
    ELSE IF Len(b) = 1 THEN
        << B64Char(b[1] \div 4), B64Char((b[1] % 4) * 16) >>
    ELSE IF Len(b) = 2 THEN
        << B64Char(b[1] \div 4),
           B64Char((b[1] % 4) * 16 + (b[2] \div 16)),
           B64Char((b[2] % 16) * 4) >>
    ELSE
        << B64Char(b[1] \div 4),
           B64Char((b[1] % 4) * 16 + (b[2] \div 16)),
           B64Char((b[2] % 16) * 4 + (b[3] \div 64)),
           B64Char(b[3] % 64) >>
        \o encode_base64_url(SubSeq(b, 4, Len(b)))

RECURSIVE B64Valid(_)
\* what base64::decode_config(.., URL_SAFE_NO_PAD) accepts: symbols of the
\* alphabet only, no length of 1 modulo 4, no set bits past the last byte
\* (no input of the model holds the padding character '=')
B64Valid(s) ==
    IF Len(s) = 0 THEN TRUE
    ELSE IF Len(s) = 1 THEN FALSE
    ELSE IF Len(s) = 2 THEN
        /\ B64Val(s[1]) >= 0 /\ B64Val(s[2]) >= 0
        /\ B64Val(s[2]) % 16 = 0
    ELSE IF Len(s) = 3 THEN
        /\ B64Val(s[1]) >= 0 /\ B64Val(s[2]) >= 0 /\ B64Val(s[3]) >= 0
        /\ B64Val(s[3]) % 4 = 0
    ELSE
        /\ B64Val(s[1]) >= 0 /\ B64Val(s[2]) >= 0
        /\ B64Val(s[3]) >= 0 /\ B64Val(s[4]) >= 0
        /\ B64Valid(SubSeq(s, 5, Len(s)))

RECURSIVE B64Bytes(_)
\* the bytes a valid base64url string stands for
B64Bytes(s) ==
    IF Len(s) < 2 THEN <<>>
    ELSE IF Len(s) = 2 THEN
        << B64Val(s[1]) * 4 + (B64Val(s[2]) \div 16) >>
    ELSE IF Len(s) = 3 THEN
        << B64Val(s[1]) * 4 + (B64Val(s[2]) \div 16),
           (B64Val(s[2]) % 16) * 16 + (B64Val(s[3]) \div 4) >>
    ELSE
        << B64Val(s[1]) * 4 + (B64Val(s[2]) \div 16),
           (B64Val(s[2]) % 16) * 16 + (B64Val(s[3]) \div 4),
           (B64Val(s[3]) % 4) * 64 + B64Val(s[4]) >>
        \o B64Bytes(SubSeq(s, 5, Len(s)))

\* ------------------------------------------------------------------ errors

Ok(fields) == [ok |-> TRUE] @@ fields

\* a value computed once, then used by the rest of the function
With(x, Rest(_)) == Rest(x)

\* The ? operator: the error of r returned at once, or the rest of the
\* function applied to r.
Try(r, Rest(_)) == IF r.ok THEN Rest(r) ELSE r

\* An error's detail is a pair: the message's fixed text and the part of it
\* that is formatted in (a field name, or an algorithm's name as bytes).

\* Error::invalid_message(format!("<text> {}", field_name))
invalid_message(text, field_name) ==
    [ok |-> FALSE, kind |-> "InvalidMessage", detail |-> <<text, field_name>>]

\* Error::unsupported_mac_algorithm(algorithm): the detail names the algorithm
unsupported_mac_algorithm(algorithm) ==
    [ok |-> FALSE, kind |-> "UnsupportedMacAlgorithm",
     detail |-> <<"unsupported algorithm", algorithm>>]

\* Error::invalid_signature("")
invalid_signature(text) ==
    [ok |-> FALSE, kind |-> "InvalidSignature", detail |-> <<text, "">>]

\* decode_base64_url(value, field_name)
decode_base64_url(value, field_name) ==
    IF B64Valid(value)
    THEN Ok([val |-> B64Bytes(value)])
    ELSE invalid_message("invalid base64 in", field_name)

\* -------------------------------------------------------------------- JSON
\* serde_json, over the values the model draws: null, booleans, naturals,
\* strings whose only escapes are \" \\ \/, and objects of these.  Numbers
\* with a sign, a fraction or an exponent, arrays and the other escapes are
\* outside the model and no input of it holds one.

JNull      == [t |-> "null", v |-> <<>>]
JBool(b)   == [t |-> "bool", v |-> IF b THEN <<1>> ELSE <<0>>]
JNum(n)    == [t |-> "num",  v |-> <<n>>]
JStr(s)    == [t |-> "str",  v |-> s]
JObj(m)    == [t |-> "obj",  v |-> m]

\* the map with no key, and a map with one more key (BTreeMap::insert)
EmptyMap == [k \in {} |-> JNull]
Insert(m, k, val) == [x \in (DOMAIN m) \cup {k} |-> IF x = k THEN val ELSE m[x]]

RECURSIVE Decimal(_)
Decimal(n) ==
    IF n < 10 THEN <<48 + n>> ELSE Decimal(n \div 10) \o <<48 + (n % 10)>>

RECURSIVE Escape(_)
\* a string's characters as serde_json writes them between the quotes
Escape(s) ==
    IF s = <<>> THEN <<>>
    ELSE (IF s[1] \in {34, 92} THEN <<92, s[1]>> ELSE <<s[1]>>) \o Escape(Tail(s))

\* the least key of a non-empty set of keys
MinKey(keys) == CHOOSE k \in keys : \A o \in keys : o = k \/ LexLess(k, o)

RECURSIVE to_vec(_)
RECURSIVE Members(_, _)
\* the member of key k, then the members of the other keys
MembersFrom(m, keys, k) ==
    <<34>> \o Escape(k) \o <<34, 58>> \o to_vec(m[k])
    \o (IF keys = {k} THEN <<>> ELSE <<44>> \o Members(m, keys \ {k}))

\* the members of an object, in the order of its keys, separated by ','
Members(m, keys) ==
    IF keys = {} THEN <<>> ELSE MembersFrom(m, keys, MinKey(keys))

\* serde_json::to_vec of a JSON value: the compact form, no white space
to_vec(j) ==
    CASE j.t = "null" -> <<110, 117, 108, 108>>
      [] j.t = "bool" -> IF j.v = <<1>> THEN <<116, 114, 117, 101>>
                                        ELSE <<102, 97, 108, 115, 101>>
      [] j.t = "num"  -> Decimal(j.v[1])
      [] j.t = "str"  -> <<34>> \o Escape(j.v) \o <<34>>
      [] j.t = "obj"  -> <<123>> \o Members(j.v, DOMAIN j.v) \o <<125>>

\* A parse step's result: ok, the value, and the position after it.
Fail == [ok |-> FALSE, val |-> JNull, pos |-> 0]
Done(val, pos) == [ok |-> TRUE, val |-> val, pos |-> pos]

RECURSIVE SkipWs(_, _)
SkipWs(s, i) ==
    IF i <= Len(s) /\ s[i] \in {32, 9, 10, 13} THEN SkipWs(s, i + 1) ELSE i

RECURSIVE ParseStringBody(_, _, _)
\* from the character after the opening quote to the closing quote
ParseStringBody(s, i, acc) ==
    IF i > Len(s) THEN Fail
    ELSE IF s[i] = 34 THEN Done(JStr(acc), i + 1)
    ELSE IF s[i] = 92 THEN
        IF i + 1 <= Len(s) /\ s[i + 1] \in {34, 92, 47}
        THEN ParseStringBody(s, i + 2, Append(acc, s[i + 1]))
        ELSE Fail
    ELSE IF s[i] < 32 THEN Fail
    ELSE ParseStringBody(s, i + 1, Append(acc, s[i]))

RECURSIVE ParseDigits(_, _, _)
ParseDigits(s, i, n) ==
    IF i <= Len(s) /\ s[i] >= 48 /\ s[i] <= 57
    THEN ParseDigits(s, i + 1, n * 10 + (s[i] - 48))
    ELSE Done(JNum(n), i)

\* a natural number: a lone 0, or digits not starting with 0
ParseNumber(s, i) ==
    IF s[i] = 48
    THEN IF i + 1 <= Len(s) /\ s[i + 1] >= 48 /\ s[i + 1] <= 57
         THEN Fail ELSE Done(JNum(0), i + 1)
    ELSE ParseDigits(s, i, 0)

ParseLiteral(s, i, word, val) ==
    IF i + Len(word) - 1 <= Len(s) /\ SubSeq(s, i, i + Len(word) - 1) = word
    THEN Done(val, i + Len(word)) ELSE Fail

\* a parse step that went well, then the next one
Then(r, Rest(_)) == IF r.ok THEN Rest(r) ELSE Fail

RECURSIVE ParseValue(_, _)
RECURSIVE ParseMembers(_, _, _)

\* after a member: '}' ends the object, ',' announces one more member
ParseNext(s, e, m) ==
    IF e > Len(s) THEN Fail
    ELSE IF s[e] = 125 THEN Done(JObj(m), e + 1)
    ELSE IF s[e] = 44 THEN ParseMembers(s, e + 1, m)
    ELSE Fail

\* after a key: ':' and the value; a key given twice keeps its last value
ParseColon(s, c, key, m) ==
    IF c > Len(s) \/ s[c] # 58 THEN Fail
    ELSE Then(ParseValue(s, c + 1),
              LAMBDA val : ParseNext(s, SkipWs(s, val.pos), Insert(m, key, val.val)))

\* a member's key, a string
ParseKey(s, a, m) ==
    IF a > Len(s) \/ s[a] # 34 THEN Fail
    ELSE Then(ParseStringBody(s, a + 1, <<>>),
              LAMBDA key : ParseColon(s, SkipWs(s, key.pos), key.val.v, m))

\* the members of an object from position i (after '{' or ',')
ParseMembers(s, i, m) == ParseKey(s, SkipWs(s, i), m)

\* after '{': '}' at once, or members
ParseObject(s, b) ==
    IF b <= Len(s) /\ s[b] = 125 THEN Done(JObj(EmptyMap), b + 1)
    ELSE ParseMembers(s, b, EmptyMap)

\* one JSON value at position a
ParseValueAt(s, a) ==
    IF a > Len(s) THEN Fail
    ELSE IF s[a] = 34  THEN ParseStringBody(s, a + 1, <<>>)
    ELSE IF s[a] \in {110, 116, 102} THEN
        ParseLiteral(s, a,
            IF s[a] = 110 THEN <<110, 117, 108, 108>>
            ELSE IF s[a] = 116 THEN <<116, 114, 117, 101>>
            ELSE <<102, 97, 108, 115, 101>>,
            IF s[a] = 110 THEN JNull ELSE JBool(s[a] = 116))
    ELSE IF s[a] >= 48 /\ s[a] <= 57 THEN ParseNumber(s, a)
    ELSE IF s[a] = 123 THEN ParseObject(s, SkipWs(s, a + 1))
    ELSE Fail

\* one JSON value from position i, leading white space skipped
ParseValue(s, i) == ParseValueAt(s, SkipWs(s, i))

\* nothing but white space after the value
AtEnd(s, r) == IF SkipWs(s, r.pos) = Len(s) + 1 THEN r ELSE Fail

\* serde_json::from_slice: one value, then nothing but white space
from_slice(s) == Then(ParseValue(s, 1), LAMBDA r : AtEnd(s, r))

\* decode_json::<BTreeMap<String, JsonValue>>(value, field_name): the value
\* must be an object
MapResult(r, field_name) ==
    IF r.ok /\ r.val.t = "obj"
    THEN Ok([val |-> r.val.v])
    ELSE invalid_message("invalid JSON in", field_name)

decode_json_map(value, field_name) == MapResult(from_slice(value), field_name)

\* decode_json::<JsonValue>(value, field_name)
ValueResult(r, field_name) ==
    IF r.ok
    THEN Ok([val |-> r.val])
    ELSE invalid_message("invalid JSON in", field_name)

decode_json_value(value, field_name) == ValueResult(from_slice(value), field_name)

\* ------------------------------------------------- headers and algorithms

Some(x) == [some |-> TRUE, val |-> x]
None    == [some |-> FALSE, val |-> EmptyMap]

\* AvailableHeaders::ProtectedOnly(header), as the two optional headers the
\* algorithms of none.rs take
ProtectedOnly(header) == [protected |-> Some(header), unprotected |-> None]

\* parse_required_header_param(protected, unprotected, name): the protected
\* header first, then the unprotected one; the parameter must be a string
RequiredString(found, name) ==
    IF ~found.some
    THEN [ok |-> FALSE, kind |-> "MissingHeaderParameter",
          detail |-> <<"missing parameter", name>>]
    ELSE IF found.val.t # "str"
    THEN [ok |-> FALSE, kind |-> "InvalidHeaderParameterType",
          detail |-> <<"not a string", name>>]
    ELSE Ok([val |-> found.val.v])

parse_required_header_param(protected, unprotected, name) ==
    RequiredString(
        IF protected.some /\ name \in DOMAIN protected.val
        THEN Some(protected.val[name])
        ELSE IF unprotected.some /\ name \in DOMAIN unprotected.val
        THEN Some(unprotected.val[name])
        ELSE [some |-> FALSE, val |-> JNull],
        name)

\* NoneVerifier::verify with the checks of lines 27 and 29 in the other order
NoneVerifier_verify_unordered(protected_header, unprotected_header, encoded_header, encoded_payload, signature) ==
    Try(parse_required_header_param(protected_header, unprotected_header, K_alg),
        LAMBDA algorithm :
            IF signature # <<>>
            THEN invalid_signature("")
            ELSE IF algorithm.val # S_none
            THEN unsupported_mac_algorithm(algorithm.val)
            ELSE Ok([val |-> <<>>]))

\* NoneVerifier::verify without the check of line 29
NoneVerifier_verify_unsigned(protected_header, unprotected_header, encoded_header, encoded_payload, signature) ==
    Try(parse_required_header_param(protected_header, unprotected_header, K_alg),
        LAMBDA algorithm :
            IF algorithm.val # S_none
            THEN unsupported_mac_algorithm(algorithm.val)
            ELSE Ok([val |-> <<>>]))

\* NoneVerifier::verify
NoneVerifier_verify(protected_header, unprotected_header, encoded_header, encoded_payload, signature) ==
    Try(parse_required_header_param(protected_header, unprotected_header, K_alg),
        LAMBDA algorithm :
            IF algorithm.val # S_none
            THEN unsupported_mac_algorithm(algorithm.val)
            ELSE IF signature # <<>>
            THEN invalid_signature("")
            ELSE Ok([val |-> <<>>]))

\* NoneSigner::set_header_params keeping an alg that is already there
NoneSigner_set_header_params_kept(header) ==
    IF K_alg \in DOMAIN header THEN header ELSE Insert(header, K_alg, JStr(S_none))

\* NoneSigner::set_header_params
NoneSigner_set_header_params(header) == Insert(header, K_alg, JStr(S_none))

\* NoneSigner::compute_mac
NoneSigner_compute_mac(encoded_header, encoded_payload) == Ok([val |-> <<>>])

RECURSIVE Sum(_)
Sum(b) == IF b = <<>> THEN 0 ELSE b[1] + Sum(Tail(b))

\* A stand-in for a keyed algorithm, "HS1": a two-byte tag that is a function
\* of exactly the two encoded slices.
ToyMac(encoded_header, encoded_payload) ==
    << (Sum(encoded_header) + 3 * Sum(encoded_payload) + 1) % 256,
       (Len(encoded_header) + Len(encoded_payload)) % 256 >>

\* The signers a caller may hand to encode_sign: NoneSigner, the stand-in
\* "hs1", "nokey", which sets its header parameter and then fails to sign,
\* and "strict", which may refuse the header.
Signers == {"none", "hs1", "nokey", "strict"}

\* Signer::set_header_params; "strict" refuses a header whose alg is already
\* set to something that is not a string
Signer_set_header_params(signer, header) ==
    IF signer = "none" THEN Ok([header |-> NoneSigner_set_header_params(header)])
    ELSE IF signer = "strict" /\ K_alg \in DOMAIN header /\ header[K_alg].t # "str"
    THEN [ok |-> FALSE, kind |-> "Other", detail |-> <<"inconsistent header", "">>]
    ELSE Ok([header |-> Insert(header, K_alg, JStr(S_HS1))])

\* Signer::compute_mac
Signer_compute_mac(signer, encoded_header, encoded_payload) ==
    IF signer = "none" THEN NoneSigner_compute_mac(encoded_header, encoded_payload)
    ELSE IF signer = "nokey"
    THEN [ok |-> FALSE, kind |-> "Other", detail |-> <<"no key", "">>]
    ELSE Ok([val |-> ToyMac(encoded_header, encoded_payload)])

\* The verifiers a caller may hand to decode_verify: NoneVerifier and the
\* stand-in for "HS1".
Verifiers == {"none", "hs1"}

\* Verifier::verify
Verifier_verify(verifier, headers, encoded_header, encoded_payload, signature) ==
    IF verifier = "none"
    THEN NoneVerifier_verify(headers.protected, headers.unprotected,
                             encoded_header, encoded_payload, signature)
    ELSE Try(parse_required_header_param(
                 headers.protected, headers.unprotected, K_alg),
             LAMBDA algorithm :
                 IF algorithm.val # S_HS1
                 THEN unsupported_mac_algorithm(algorithm.val)
                 ELSE IF signature # ToyMac(encoded_header, encoded_payload)
                 THEN invalid_signature("")
                 ELSE Ok([val |-> <<>>]))

\* ---------------------------------------------------------- compact codec

\* the index of the first b'.' of data at or after position i, 0 if none
RECURSIVE FindDot(_, _)
FindDot(data, i) ==
    IF i > Len(data) THEN 0
    ELSE IF data[i] = DOT THEN i
    ELSE FindDot(data, i + 1)

RECURSIVE splitn(_, _)
\* data.splitn(n, |&c| c == b'.'): at most n sub-slices, the last one holding
\* the rest of the data, separators included; d is where the first '.' is
SplitAt(n, data, d) ==
    IF n = 0 THEN <<>>
    ELSE IF n = 1 \/ d = 0 THEN <<data>>
    ELSE <<SubSeq(data, 1, d - 1)>>
         \o splitn(n - 1, SubSeq(data, d + 1, Len(data)))

splitn(n, data) == SplitAt(n, data, FindDot(data, 1))

\* split_encoded_parts(data)
\* split_encoded_parts, lines 212-221: what becomes of the sub-slices
TakeParts(parts) ==
    IF Len(parts) < 1
    THEN invalid_message("encoded message does not contain a header", "")
    ELSE IF Len(parts) < 2
    THEN invalid_message("encoded message does not contain a payload", "")
    ELSE IF Len(parts) < 3
    THEN invalid_message("encoded message does not contain a signature", "")
    ELSE IF Len(parts) > 3
    THEN invalid_message(
             "encoded message contains an additional field after the signature", "")
    ELSE Ok([header |-> parts[1], payload |-> parts[2], signature |-> parts[3]])

\* splitn(3, ..) in place of splitn(4, ..): a fourth field is not noticed
SplitParts_three(data) == splitn(3, data)

\* split_encoded_parts, line 210: the sub-slices
SplitParts(data) == splitn(4, data)

split_encoded_parts(data) == TakeParts(SplitParts(data))

\* Message::decode_header_payload(header, payload)
Message_decode_header_payload(header, payload) ==
    Try(decode_base64_url(header, "header"), LAMBDA h64 :
    Try(decode_base64_url(payload, "payload"), LAMBDA p64 :
    Try(decode_json_map(h64.val, "header"), LAMBDA hj :
    Try(decode_json_value(p64.val, "payload"), LAMBDA pj :
    Ok([message |-> [header |-> hj.val, payload |-> pj.val]])))))

\* CompactSerializedParts::decode
CompactSerializedParts_decode(parts) ==
    Try(Message_decode_header_payload(parts.header, parts.payload), LAMBDA message :
    Try(decode_base64_url(parts.signature, "signature"), LAMBDA signature :
    Ok([message |-> message.message, signature |-> signature.val])))

\* decode(data)
decode(data) ==
    Try(split_encoded_parts(data), LAMBDA parts : CompactSerializedParts_decode(parts))

\* Message::encode: an EncodedMessage {data, header_length}
EncodedMessage(header64, payload64) ==
    [data          |-> header64 \o <<DOT>> \o payload64,
     header_length |-> Len(header64)]

Message_encode(m) ==
    EncodedMessage(encode_base64_url(to_vec(JObj(m.header))),
                   encode_base64_url(to_vec(m.payload)))

\* EncodedMessage::payload starting at the separator
EncodedMessage_payload_separator(e) == SubSeq(e.data, e.header_length + 1, Len(e.data))

\* EncodedMessage::header and EncodedMessage::payload
EncodedMessage_header(e)  == SubSeq(e.data, 1, e.header_length)
EncodedMessage_payload(e) == SubSeq(e.data, e.header_length + 2, Len(e.data))

\* EncodedSignedMessage::header, ::payload and ::signature
EncodedSignedMessage_header(e) == SubSeq(e.data, 1, e.header_length)
EncodedSignedMessage_payload(e) ==
    SubSeq(e.data, e.header_length + 2, e.header_length + 1 + e.payload_length)
EncodedSignedMessage_signature(e) ==
    SubSeq(e.data, e.header_length + 1 + e.payload_length + 2, Len(e.data))

\* Message::encode_sign, lines 104-107: the bytes of the signed message
SignedData(encoded, signature) == encoded.data \o <<DOT>> \o signature

\* the header as it was before the signer set its parameters
HeaderToEncode_before(m, set) == m.header

\* Message::encode_sign, line 95: the header the message is encoded with
HeaderToEncode(m, set) == set.header

\* Message::encode_sign, lines 99-109: the encoded message is signed
SignEncoded(m2, signer, encoded, eh, ep, call1) ==
    With(Signer_compute_mac(signer, eh, ep), LAMBDA mac :
        [res     |-> Try(mac, LAMBDA sig :
                         Ok([data           |-> SignedData(encoded, sig.val),
                             header_length  |-> Len(eh),
                             payload_length |-> Len(ep)])),
         message |-> m2,
         calls   |-> <<call1, [fn |-> "compute_mac", encoded_header |-> eh,
                               encoded_payload |-> ep, result |-> mac]>>])

\* Message::encode_sign, lines 96-99: the message is encoded
EncodeThenSign(m2, signer, encoded, call1) ==
    SignEncoded(m2, signer, encoded,
                EncodedMessage_header(encoded), EncodedMessage_payload(encoded), call1)

\* Message::encode_sign, line 95: the signer has set its header parameters
AfterSetHeader(m, signer, set, call1) ==
    IF ~set.ok
    THEN [res |-> set, message |-> m, calls |-> <<call1>>]
    ELSE EncodeThenSign([m EXCEPT !.header = HeaderToEncode(m, set)], signer,
                        Message_encode([m EXCEPT !.header = HeaderToEncode(m, set)]),
                        call1)

\* Message::encode_sign(signer).  The result, the message as the call leaves
\* it (self is &mut), and the calls made to the signer, in order.
Message_encode_sign(m, signer) ==
    With(Signer_set_header_params(signer, m.header), LAMBDA set :
        AfterSetHeader(m, signer, set,
            [fn |-> "set_header_params", header |-> m.header, result |-> set]))

\* the verifier handed the decoded header and payload, serialized again
VerifyArgs_reserialized(parts, message, signature) ==
    [headers         |-> ProtectedOnly(message.header),
     encoded_header  |-> encode_base64_url(to_vec(JObj(message.header))),
     encoded_payload |-> encode_base64_url(to_vec(message.payload)),
     signature       |-> signature]

\* decode_verify, line 27: the arguments of verifier.verify
VerifyArgs(parts, message, signature) ==
    [headers         |-> ProtectedOnly(message.header),
     encoded_header  |-> parts.header,
     encoded_payload |-> parts.payload,
     signature       |-> signature]

\* the verifier's result dropped
VerifyOutcome_dropped(verified, message) == Ok([message |-> message])

\* decode_verify, lines 27-28: the verifier's error (the ? operator), or the
\* message
VerifyOutcome(verified, message) ==
    IF ~verified.ok THEN verified ELSE Ok([message |-> message])

\* decode_verify, line 27: the verifier is called
CallVerifier(verifier, args) ==
    Verifier_verify(verifier, args.headers, args.encoded_header,
                    args.encoded_payload, args.signature)

Verified(verifier, args, message, verified) ==
    [res   |-> VerifyOutcome(verified, message),
     calls |-> <<[fn |-> "verify", args |-> args, result |-> verified]>>]

VerifyWith(verifier, args, message) ==
    Verified(verifier, args, message, CallVerifier(verifier, args))

VerifyDecoded(verifier, parts, decoded) ==
    IF ~decoded.ok THEN [res |-> decoded, calls |-> <<>>]
    ELSE VerifyWith(verifier,
                    VerifyArgs(parts, decoded.message, decoded.signature),
                    decoded.message)

VerifyParts(verifier, parts) ==
    IF ~parts.ok THEN [res |-> parts, calls |-> <<>>]
    ELSE VerifyDecoded(verifier, parts, CompactSerializedParts_decode(parts))

\* decode_verify(data, verifier).  The result and the calls made to the
\* verifier.
decode_verify(data, verifier) == VerifyParts(verifier, split_encoded_parts(data))

\* ------------------------------------------------------------------ inputs

\* the longest byte string drawn from SplitAlphabet
MaxLen == 4
\* the largest number a payload holds
MaxNum == 11

\* the headers and payloads of the messages a caller encodes
Headers ==
    { EmptyMap,
      Insert(EmptyMap, K_typ, JStr(S_JWT)),
      Insert(EmptyMap, K_alg, JStr(S_HS1)),
      Insert(Insert(EmptyMap, K_typ, JStr(S_JWT)), K_alg, JStr(S_none)),
      Insert(Insert(EmptyMap, K_kid, JNum(7)), K_alg, JNum(1)) }

Payloads ==
    { JNull, JBool(TRUE), JBool(FALSE), JStr(<<>>), JStr(S_joe), JStr(S_quote),
      JObj(EmptyMap), JObj(Insert(EmptyMap, K_iss, JStr(S_joe))) }
    \cup { JNum(n) : n \in 0..MaxNum }

Messages == [header : Headers, payload : Payloads]

\* every byte string over SplitAlphabet of length at most n
RECURSIVE Strings(_, _)
Strings(alphabet, n) ==
    IF n = 0 THEN { <<>> }
    ELSE LET shorter == Strings(alphabet, n - 1)
         IN  shorter \cup { Append(x, c) : x \in shorter, c \in alphabet }

\* '.', and two base64url symbols: "Q" alone is no base64url, "QQ" is
SplitAlphabet == {DOT, 81, 97}

\* Header texts a peer may send: canonical, with white space, with a key given
\* twice, with an alg that is no string, without alg, not an object, not JSON.
RawHeaders ==
    { to_vec(JObj(Insert(EmptyMap, K_alg, JStr(S_none)))),
      <<123, 32, 34, 97, 108, 103, 34, 32, 58, 32, 34, 110, 111, 110, 101, 34, 32, 125>>,
      <<123, 34, 97, 108, 103, 34, 58, 34, 72, 83, 49, 34, 44,
             34, 97, 108, 103, 34, 58, 34, 110, 111, 110, 101, 34, 125>>,
      to_vec(JObj(Insert(EmptyMap, K_alg, JStr(S_HS1)))),
      to_vec(JObj(Insert(EmptyMap, K_alg, JNum(7)))),
      to_vec(JObj(EmptyMap)),
      to_vec(JNum(7)),
      <<123>> }

\* Payload texts a peer may send: none at all, JSON, JSON in white space, and
\* bytes that are no JSON.
RawPayloads ==
    { <<>>, to_vec(JNull), to_vec(JStr(S_joe)), <<32, 55, 32>>, <<106, 111, 101>> }

\* Signature segments a peer may send: empty, "AQ" and "AQID" (base64url of
\* the bytes 1 and 1,2,3), and "Q" and "!!" (no base64url).
RawSignatures == { <<>>, <<65, 81>>, <<65, 81, 73, 68>>, <<81>>, <<33, 33>> }

Token(header, payload, signature) ==
    header \o <<DOT>> \o payload \o <<DOT>> \o signature

\* what may arrive from the network
Inputs ==
    Strings(SplitAlphabet, MaxLen)
    \cup { Token(encode_base64_url(h), encode_base64_url(p), sig) :
             h \in RawHeaders, p \in RawPayloads, sig \in RawSignatures }

\* ------------------------------------------------------------------- state

VARIABLES
    wire,     \* the token bytes in hand: just produced, received or tampered with
    origin,   \* where wire comes from, and the message and signer it was made of
    encoded,  \* the EncodedMessage / EncodedSignedMessage last produced (for
              \* an EncodedMessage, payload_length is the length of payload())
    out,      \* the last call and its result
    calls     \* the calls the last operation made to its signer or verifier

vars == <<wire, origin, encoded, out, calls>>

NoMessage == [header |-> EmptyMap, payload |-> JNull]
NoEncoded == [data |-> <<>>, header_length |-> 0, payload_length |-> 0]

Init ==
    /\ wire = <<>>
    /\ origin = [by |-> "nothing", message |-> NoMessage, signer |-> ""]
    /\ encoded = NoEncoded
    /\ out = [op |-> "init"]
    /\ calls = <<>>

\* One run follows one token: it is produced (encoded, signed or received)
\* once, may be tampered with, and is then handed to the decoding calls.
Fresh == origin.by = "nothing" /\ out.op = "init"

\* A caller encodes a message without signing it.
Encode ==
    \E m \in Messages :
        /\ Fresh
        /\ \E e \in { Message_encode(m) } :
               /\ encoded' = [data           |-> e.data,
                              header_length  |-> e.header_length,
                              payload_length |-> Len(EncodedMessage_payload(e))]
               /\ wire' = e.data
               /\ out' = [op |-> "encode", message |-> m]
        /\ origin' = [by |-> "encode", message |-> m, signer |-> ""]
        /\ calls' = <<>>

\* A caller encodes and signs a message.
EncodeSign ==
    \E m \in Messages, signer \in Signers :
        /\ Fresh
        /\ \E r \in { Message_encode_sign(m, signer) } :
               /\ out' = [op |-> "encode_sign", res |-> r.res, message |-> r.message]
               /\ calls' = r.calls
               /\ encoded' = IF r.res.ok
                             THEN [data           |-> r.res.data,
                                   header_length  |-> r.res.header_length,
                                   payload_length |-> r.res.payload_length]
                             ELSE NoEncoded
               /\ wire' = IF r.res.ok THEN r.res.data ELSE <<>>
               /\ origin' = [by      |-> IF r.res.ok THEN "encode_sign" ELSE "failed",
                             message |-> m, signer |-> signer]

\* Bytes arrive from a peer.
Receive ==
    \E data \in Inputs :
        /\ Fresh
        /\ wire' = data
        /\ origin' = [by |-> "peer", message |-> NoMessage, signer |-> ""]
        /\ out' = [op |-> "receive"]
        /\ UNCHANGED <<encoded, calls>>

\* Someone replaces the (empty) signature segment of a token signed with
\* NoneSigner by a segment that is not empty.
Tamper ==
    \E sig \in RawSignatures \ { <<>> } :
        /\ origin.by = "encode_sign" /\ origin.signer = "none"
        /\ out.op = "encode_sign"
        /\ wire' = Token(EncodedSignedMessage_header(encoded),
                         EncodedSignedMessage_payload(encoded), sig)
        /\ origin' = [origin EXCEPT !.by = "tampered"]
        /\ out' = [op |-> "tamper", signature |-> sig]
        /\ UNCHANGED <<encoded, calls>>

HasToken == origin.by \in {"encode", "encode_sign", "tampered", "peer"}

\* split_encoded_parts(wire)
Split ==
    /\ HasToken
    /\ out' = [op |-> "split_encoded_parts", res |-> split_encoded_parts(wire)]
    /\ calls' = <<>>
    /\ UNCHANGED <<wire, origin, encoded>>

\* decode(wire)
Decode ==
    /\ HasToken
    /\ out' = [op |-> "decode", res |-> decode(wire)]
    /\ calls' = <<>>
    /\ UNCHANGED <<wire, origin, encoded>>

\* Message::decode_header_payload on the two segments of the EncodedMessage
\* that encode returned
DecodeHeaderPayload ==
    /\ origin.by = "encode"
    /\ out' = [op  |-> "decode_header_payload",
               res |-> Message_decode_header_payload(
                           EncodedMessage_header(encoded),
                           EncodedMessage_payload(encoded))]
    /\ calls' = <<>>
    /\ UNCHANGED <<wire, origin, encoded>>

\* decode_verify(wire, verifier)
DecodeVerify ==
    \E verifier \in Verifiers :
        /\ HasToken
        /\ \E r \in { decode_verify(wire, verifier) } :
               /\ out' = [op |-> "decode_verify", verifier |-> verifier, res |-> r.res]
               /\ calls' = r.calls
        /\ UNCHANGED <<wire, origin, encoded>>

\* what the tests of none.rs hand to NoneVerifier::verify as encoded parts
FakeParts == { <<>>, <<102, 97, 107, 101>> }

\* A direct call of NoneVerifier::verify, as test_verify_none makes it.
Verify ==
    \E header \in Headers, eh \in FakeParts, ep \in FakeParts :
    \E signature \in { <<>>, <<1>>, ToyMac(eh, ep) } :
        /\ Fresh
        /\ out' = [op |-> "verify", header |-> header, encoded_header |-> eh,
                   encoded_payload |-> ep, signature |-> signature,
                   res |-> NoneVerifier_verify(Some(header), None, eh, ep, signature)]
        /\ calls' = <<>>
        /\ UNCHANGED <<wire, origin, encoded>>

Next ==
    \/ Encode
    \/ EncodeSign
    \/ Receive
    \/ Tamper
    \/ Split
    \/ Decode
    \/ DecodeHeaderPayload
    \/ DecodeVerify
    \/ Verify

Spec == Init /\ [][Next]_vars

\* -------------------------------------------------------------- properties
\* The segments of a token, read off the positions of its '.' bytes.

Dots(data) == { i \in 1..Len(data) : data[i] = DOT }
FirstDot(data)  == CHOOSE i \in Dots(data) : \A j \in Dots(data) : i <= j
SecondDot(data) ==
    CHOOSE i \in Dots(data) \ {FirstDot(data)} :
        \A j \in Dots(data) \ {FirstDot(data)} : i <= j
Segment1(data) == SubSeq(data, 1, FirstDot(data) - 1)
Segment2(data) == SubSeq(data, FirstDot(data) + 1, SecondDot(data) - 1)
Segment3(data) == SubSeq(data, SecondDot(data) + 1, Len(data))
NoDot(part) == \A i \in 1..Len(part) : part[i] # DOT

\* the alg parameter of a header, JNull when it has none
AlgOf(header) == IF K_alg \in DOMAIN header THEN header[K_alg] ELSE JNull

\* C1: whenever encode_sign succeeds, the token is base64url(JSON header),
\* '.', base64url(JSON payload), '.', and the base64url encoding of the bytes
\* that compute_mac returned.
C1_SignatureSegmentIsBase64 ==
    (out.op = "encode_sign" /\ out.res.ok) =>
        out.res.data =
            Token(encode_base64_url(to_vec(JObj(out.message.header))),
                  encode_base64_url(to_vec(out.message.payload)),
                  encode_base64_url(calls[2].result.val))

\* C2, as stated: decode applied to the bytes that encode produced succeeds
\* and returns the header and the payload of the message that was encoded.
C2_DecodeOfEncode ==
    (out.op = "decode" /\ origin.by = "encode") =>
        /\ out.res.ok
        /\ out.res.message = origin.message

\* C2, amended: Message::decode_header_payload applied to the header and the
\* payload segment of what encode produced returns the message that was
\* encoded; decode applied to those bytes fails with InvalidMessage, for they
\* hold one '.' and no signature segment.
C2_DecodeHeaderPayloadOfEncode ==
    /\ (out.op = "decode_header_payload") =>
           /\ out.res.ok
           /\ out.res.message = origin.message
    /\ (out.op = "decode" /\ origin.by = "encode") =>
           /\ ~out.res.ok
           /\ out.res.kind = "InvalidMessage"

\* the round trip of a payload string that needs escaping, under a header with alg
C2_Witness ==
    /\ out.op = "decode_header_payload"
    /\ out.res.ok
    /\ origin.message.payload = JStr(S_quote)
    /\ K_alg \in DOMAIN origin.message.header

\* C3: whenever decode_verify calls the verifier, encoded_header and
\* encoded_payload are the first and the second '.'-delimited segment of the
\* input, byte for byte, and signature is what the third segment is the
\* base64url encoding of.
C3_VerifierSeesOriginalBytes ==
    (out.op = "decode_verify" /\ calls # <<>>) =>
        /\ Cardinality(Dots(wire)) = 2
        /\ calls[1].args.encoded_header = Segment1(wire)
        /\ calls[1].args.encoded_payload = Segment2(wire)
        /\ encode_base64_url(calls[1].args.signature) = Segment3(wire)

\* the verifier was called on a token whose header is not in the form the
\* encoder writes, with a signature that is not empty
C3_Witness ==
    /\ out.op = "decode_verify"
    /\ calls # <<>>
    /\ calls[1].args.signature # <<>>
    /\ encode_base64_url(to_vec(JObj(calls[1].args.headers.protected.val)))
           # calls[1].args.encoded_header

\* C4: decode_verify returns a message only if the verifier returned success,
\* and whenever the verifier returned an error decode_verify returns that
\* error, kind and detail.
C4_VerifierDecides ==
    (out.op = "decode_verify") =>
        /\ out.res.ok => (calls # <<>> /\ calls[1].result.ok)
        /\ (calls # <<>> /\ ~calls[1].result.ok) => out.res = calls[1].result

\* the verifier refused the token's algorithm
C4_Witness ==
    /\ out.op = "decode_verify"
    /\ calls # <<>>
    /\ ~calls[1].result.ok
    /\ calls[1].result.kind = "UnsupportedMacAlgorithm"

\* C5: in encode_sign, set_header_params is called first and compute_mac
\* after the header is serialized: the header segment of the token encodes
\* the header as set_header_params left it, and the two slices that
\* compute_mac was given are the header and the payload segment of the token.
C5_SignsFinalHeader ==
    (out.op = "encode_sign") =>
        /\ calls[1].fn = "set_header_params"
        /\ Len(calls) = 2 =>
               /\ calls[1].result.ok
               /\ calls[2].fn = "compute_mac"
               /\ calls[2].encoded_header =
                      encode_base64_url(to_vec(JObj(calls[1].result.header)))
        /\ out.res.ok =>
               /\ Len(calls) = 2
               /\ out.message.header = calls[1].result.header
               /\ calls[2].encoded_header = EncodedSignedMessage_header(out.res)
               /\ calls[2].encoded_payload = EncodedSignedMessage_payload(out.res)
               /\ calls[2].encoded_header = Segment1(out.res.data)
               /\ calls[2].encoded_payload = Segment2(out.res.data)

\* a signer added alg to a header that had none, and signed
C5_Witness ==
    /\ out.op = "encode_sign"
    /\ out.res.ok
    /\ origin.signer = "hs1"
    /\ K_alg \notin DOMAIN origin.message.header
    /\ AlgOf(out.message.header) = JStr(S_HS1)

\* C6: split_encoded_parts succeeds exactly when the input holds exactly two
\* '.' bytes; the three parts are then the input's segments, unmodified and
\* possibly empty; every other input yields InvalidMessage.
C6_SplitExactlyTwoDots ==
    (out.op = "split_encoded_parts") =>
        /\ out.res.ok <=> (Cardinality(Dots(wire)) = 2)
        /\ out.res.ok =>
               /\ Token(out.res.header, out.res.payload, out.res.signature) = wire
               /\ NoDot(out.res.header) /\ NoDot(out.res.payload)
               /\ NoDot(out.res.signature)
               /\ out.res.header = Segment1(wire)
               /\ out.res.payload = Segment2(wire)
               /\ out.res.signature = Segment3(wire)
        /\ ~out.res.ok => out.res.kind = "InvalidMessage"

\* a split with an empty part in the middle
C6_Witness ==
    /\ out.op = "split_encoded_parts"
    /\ out.res.ok
    /\ out.res.header # <<>>
    /\ out.res.payload = <<>>
    /\ out.res.signature # <<>>

\* C7: NoneVerifier::verify succeeds if and only if alg is the string "none"
\* and the signature is empty; an alg that is another string fails with the
\* unsupported-algorithm error whatever the signature; alg "none" with a
\* signature that is not empty fails with InvalidSignature.
C7_NoneVerifier ==
    (out.op = "verify") =>
        /\ out.res.ok <=>
               (AlgOf(out.header) = JStr(S_none) /\ out.signature = <<>>)
        /\ (AlgOf(out.header).t = "str" /\ AlgOf(out.header).v # S_none) =>
               /\ ~out.res.ok
               /\ out.res.kind = "UnsupportedMacAlgorithm"
               /\ out.res.detail[2] = AlgOf(out.header).v
        /\ (AlgOf(out.header) = JStr(S_none) /\ out.signature # <<>>) =>
               /\ ~out.res.ok
               /\ out.res.kind = "InvalidSignature"

\* another algorithm and a signature that is not empty: the algorithm decides
C7_Witness ==
    /\ out.op = "verify"
    /\ AlgOf(out.header) = JStr(S_HS1)
    /\ out.signature # <<>>
    /\ out.encoded_header # <<>>
    /\ out.res.kind = "UnsupportedMacAlgorithm"

\* C8: decode_verify with NoneVerifier, applied to the token that encode_sign
\* with NoneSigner returned for a message, succeeds with that message's
\* payload and that message's header with alg set to "none".
C8_NoneRoundTrip ==
    (/\ out.op = "decode_verify" /\ out.verifier = "none"
     /\ origin.by = "encode_sign" /\ origin.signer = "none") =>
        /\ out.res.ok
        /\ out.res.message.payload = origin.message.payload
        /\ out.res.message.header =
               Insert(origin.message.header, K_alg, JStr(S_none))

\* the message named another algorithm before it was signed
C8_Witness ==
    /\ out.op = "decode_verify" /\ out.verifier = "none"
    /\ origin.by = "encode_sign" /\ origin.signer = "none"
    /\ AlgOf(origin.message.header) = JStr(S_HS1)
    /\ out.res.ok

\* C9, as stated: a token signed with NoneSigner whose empty signature
\* segment was replaced by any value that is not empty fails decode_verify
\* with NoneVerifier with InvalidSignature.
C9_AnyNonEmptySignature ==
    (/\ out.op = "decode_verify" /\ out.verifier = "none"
     /\ origin.by = "tampered") =>
        /\ ~out.res.ok
        /\ out.res.kind = "InvalidSignature"

\* C9, amended: the replaced signature segment makes decode_verify fail, with
\* InvalidSignature when the segment is valid base64url, and with
\* InvalidMessage, the verifier never called, when it is not.
C9_NonEmptySignatureRejected ==
    (/\ out.op = "decode_verify" /\ out.verifier = "none"
     /\ origin.by = "tampered") =>
        /\ Segment3(wire) # <<>>
        /\ Segment1(wire) = EncodedSignedMessage_header(encoded)
        /\ Segment2(wire) = EncodedSignedMessage_payload(encoded)
        /\ ~out.res.ok
        /\ B64Valid(Segment3(wire)) =>
               (out.res.kind = "InvalidSignature" /\ calls # <<>>)
        /\ ~B64Valid(Segment3(wire)) =>
               (out.res.kind = "InvalidMessage" /\ calls = <<>>)

\* a replaced signature segment that decodes, refused by the verifier
C9_Witness ==
    /\ out.op = "decode_verify" /\ out.verifier = "none"
    /\ origin.by = "tampered"
    /\ B64Valid(Segment3(wire))
    /\ out.res.kind = "InvalidSignature"

\* whether a segment decodes to a JSON object
ValidHeaderSegment(seg) ==
    B64Valid(seg) /\ decode_json_map(B64Bytes(seg), "header").ok

\* C10: decode does not reject a token for an empty payload segment or an
\* empty signature segment: with a valid header segment, and each of the
\* other two segments empty or valid, the token decodes.
C10_EmptySegmentsDecode ==
    (/\ out.op = "decode"
     /\ Cardinality(Dots(wire)) = 2
     /\ ValidHeaderSegment(Segment1(wire))
     /\ Segment2(wire) = <<>> \/ Segment3(wire) = <<>>
     /\ Segment2(wire) = <<>>
            \/ (B64Valid(Segment2(wire))
                /\ decode_json_value(B64Bytes(Segment2(wire)), "payload").ok)
     /\ Segment3(wire) = <<>> \/ B64Valid(Segment3(wire))) =>
        out.res.ok

====
